---------------------------- MODULE Spec2Model ----------------------------
(***************************************************************************)
(* Model of the two PWA build steps of core-build-tools:                   *)
(*   - the HTML head generator      (src/lib/make-html-header.js)          *)
(*   - the icon/splashscreen image generator (src/unnamed/part_000)        *)
(* Strings are TLA+ strings, built with \o and ToString exactly where the  *)
(* JavaScript builds them with template literals and Path.join.            *)
(***************************************************************************)
EXTENDS Integers, Sequences, FiniteSets, TLC

(***************************************************************************)
(* Bounds.                                                                 *)
(***************************************************************************)
\* longest definition table drawn for AppIconDefs / SplashscreenDefs
MaxDefs == 2
\* largest numeric opts.indentSize drawn for the header generator
MaxIndent == 2
\* largest number of files present in the probed file system
MaxFiles == 3

(***************************************************************************)
(* Values shared by both generators.                                       *)
(***************************************************************************)
\* the JavaScript value undefined, where a manifest or option field is absent
Undefined == "<undefined>"
\* the JavaScript value null, as returned by findFileMatch
Null == "<null>"

\* `${w}x${h}`
Dim(w, h) == ToString(w) \o "x" \o ToString(h)

\* The tables of ./settings: { target, w, h } / { target, w, h, dw, dh, dd }.
AppIconPool ==
    { [target |-> "ios", w |-> 120, h |-> 120],
      [target |-> "ios", w |-> 180, h |-> 180],
      [target |-> "std", w |-> 192, h |-> 192] }

SplashscreenPool ==
    { [target |-> "ios", w |-> 640, h |-> 1136, dw |-> 320, dh |-> 568, dd |-> 2],
      [target |-> "std", w |-> 512, h |-> 512, dw |-> 0, dh |-> 0, dd |-> 1] }

\* all duplicate-free tables of at most n rows over a pool
Tables(pool, n) ==
    UNION { { t \in [1..k -> pool] : \A i, j \in 1..k : i # j => t[i] # t[j] }
            : k \in 0..n }

\* Array.prototype.filter( d => d.target == tgt )
RECURSIVE FilterTarget(_, _)
FilterTarget(defs, tgt) ==
    IF defs = <<>> THEN <<>>
    ELSE IF Head(defs).target = tgt
         THEN <<Head(defs)>> \o FilterTarget(Tail(defs), tgt)
         ELSE FilterTarget(Tail(defs), tgt)

InstallBannerCSSURL == "banner.css"
InstallBannerJSURL == "banner.js"


(***************************************************************************)
(* State.                                                                  *)
(***************************************************************************)
VARIABLES
    AppIconDefs,        \* settings.AppIconDefs
    SplashscreenDefs,   \* settings.SplashscreenDefs
    \* ---- make-html-header.js ----
    hpc,                \* position of the header make(): "start", "loadManifest", "done"
    opts,               \* build options { indentSize }
    pwa,                \* the manifest's pwa object once loaded
    result,             \* the printer's result string
    houtcome,           \* "pending", "resolved" or "rejected"
    \* ---- the image generator ----
    files,              \* the paths for which exists() answers true
    pc,                 \* the await make() is suspended on, "start" or "done"
    stage,              \* the section of make: "appicon", "std" or "ios"
    ffm,                \* the frame of the running findFileMatch
    bi,                 \* the frame of the running buildImages
    background_color,   \* const { pwa: { background_color } }
    baseAppIconPath,
    baseStdSplashscreenPath,
    baseIosSplashscreenPath,
    inflight,           \* collaborator operations issued and not yet settled
    log,                \* every operation issued, settled or called, in order
    outcome,            \* "pending", "resolved" or "rejected"
    error,              \* what make rejected with
    tgtFiles,           \* the files of the target tree
    tgtDirs             \* the directories ensureDir made

hvars == <<hpc, opts, pwa, result, houtcome>>

avars == <<files, pc, stage, ffm, bi, background_color, baseAppIconPath,
           baseStdSplashscreenPath, baseIosSplashscreenPath, inflight, log,
           outcome, error, tgtFiles, tgtDirs>>

(***************************************************************************)
(* make-html-header.js                                                     *)
(***************************************************************************)
StartsWith(s, prefix) ==
    Len(s) >= Len(prefix) /\ SubSeq(s, 1, Len(prefix)) = prefix

EndsWith(s, suffix) ==
    Len(s) >= Len(suffix) /\ SubSeq(s, Len(s) - Len(suffix) + 1, Len(s)) = suffix

IOSAppIconDefs == FilterTarget(AppIconDefs, "ios")
IOSSplashscreenDefs == FilterTarget(SplashscreenDefs, "ios")

\* ''.padEnd( n, ' ' )
RECURSIVE PadEnd(_)
PadEnd(n) == IF n <= 0 THEN "" ELSE " " \o PadEnd(n - 1)

IsSpace(c) == c \in {" ", "\n", "\t"}

\* String.prototype.trim
RECURSIVE TrimStart(_)
TrimStart(s) ==
    IF Len(s) > 0 /\ IsSpace(SubSeq(s, 1, 1)) THEN TrimStart(SubSeq(s, 2, Len(s))) ELSE s

RECURSIVE TrimEnd(_)
TrimEnd(s) ==
    IF Len(s) > 0 /\ IsSpace(SubSeq(s, Len(s), Len(s)))
    THEN TrimEnd(SubSeq(s, 1, Len(s) - 1))
    ELSE s

Trim(s) == TrimEnd(TrimStart(s))

\* mutant of PrinterIndent: the option is ignored and the default width is used
PrinterIndentIgnoresOption(o) == PadEnd(4)

\* const indent = ''.padEnd( typeof indentSize === 'number' ? indentSize : 4, ' ' )
PrinterIndent(o) == PadEnd(IF o.hasIndentSize THEN o.indentSize ELSE 4)

\* const trim = indentSize == 0
PrinterTrim(o) == o.hasIndentSize /\ o.indentSize = 0

\* the body of the forEach in print: indent, optionally trimmed line, newline
PrintLine(res, o, line) ==
    res \o PrinterIndent(o) \o (IF PrinterTrim(o) THEN Trim(line) ELSE line) \o "\n"

RECURSIVE PrintEach(_, _, _)
PrintEach(res, o, lines) ==
    IF lines = <<>> THEN res
    ELSE PrintEach(PrintLine(res, o, Head(lines)), o, Tail(lines))

\* print( ...arguments ): no arguments prints a newline
print(res, o, arguments) ==
    IF Len(arguments) = 0 THEN res \o "\n" ELSE PrintEach(res, o, arguments)

\* Return a value for the apple-mobile-web-app-capable meta tag.
getWebAppCapable(p) == IF p.display = "fullscreen" THEN "yes" ELSE "no"

\* mutant of getStatusBarStyle: the two fallback values are swapped
getStatusBarStyleSwapped(p) ==
    IF p.ios.statusBarStyle \in {"default", "black", "black-translucent"}
    THEN p.ios.statusBarStyle
    ELSE IF p.display = "fullscreen" THEN "default" ELSE "black-translucent"

\* Return a value for the apple-mobile-web-app-status-bar-style meta tag.
getStatusBarStyle(p) ==
    IF p.ios.statusBarStyle \in {"default", "black", "black-translucent"}
    THEN p.ios.statusBarStyle
    ELSE IF p.display = "fullscreen" THEN "black-translucent" ELSE "default"

\* href of the apple-touch-icon link of one icon definition
IconHref(d) == "pwa/appicon/" \o Dim(d.w, d.h) \o ".png"

IconLink(d) ==
    <<"<link rel=\"apple-touch-icon\" sizes=\"" \o Dim(d.w, d.h)
        \o "\" href=\"" \o IconHref(d) \o "\" />">>

SplashscreenLink(d) ==
    << "<link rel=\"apple-touch-startup-image\"",
       "    href=\"pwa/splashscreen/" \o Dim(d.w, d.h) \o ".png\"",
       "    media=\"(device-width: " \o ToString(d.dw) \o "px) and (device-height: "
           \o ToString(d.dh) \o "px) and (-webkit-device-pixel-ratio: "
           \o ToString(d.dd) \o ")\" />" >>

\* the sequence of print calls of make, each with its argument list
PrintCalls(p, icons, splashscreens) ==
       << <<"<meta charset=\"utf-8\" />">>,
          <<"<meta name=\"viewport\" content=\"width=device-width, initial-scale=1, shrink-to-fit=no\" />">>,
          <<"<meta name=\"theme-color\" content=\"" \o p.background_color \o "\" />">>,
          <<>>,
          <<"<title>" \o p.name \o "</title>">>,
          <<>>,
          <<"<link rel=\"manifest\" href=\"manifest.webmanifest\" />">>,
          <<>> >>
    \o [i \in 1..Len(icons) |-> IconLink(icons[i])]
    \o << <<>> >>
    \o [i \in 1..Len(splashscreens) |-> SplashscreenLink(splashscreens[i])]
    \o << <<>>,
          <<"<meta name=\"apple-mobile-web-app-title\" content=\"" \o p.short_name \o "\" />">>,
          <<"<meta name=\"apple-mobile-web-app-capable\" content=\"" \o getWebAppCapable(p) \o "\" />">>,
          <<"<meta name=\"apple-mobile-web-app-status-bar-style\" content=\""
              \o getStatusBarStyle(p) \o "\" />">> >>
    \o (IF p.ios.showInstallBanner
        THEN << <<>>,
                <<"<link rel=\"stylesheet\" href=\"" \o InstallBannerCSSURL \o "\" />">>,
                <<"<script src=\"" \o InstallBannerJSURL \o "\"></script>">> >>
        ELSE <<>>)

RECURSIVE PrintAll(_, _, _)
PrintAll(res, o, calls) ==
    IF calls = <<>> THEN res
    ELSE PrintAll(print(res, o, Head(calls)), o, Tail(calls))

\* what loadManifest may return and what make may be called with
Manifests ==
    [ name : {"Demo", "My\nApp"},
      short_name : {"Demo"},
      background_color : {"#fff"},
      display : {"fullscreen", "standalone"},
      ios : [ statusBarStyle : {"default", "black", "black-translucent", "light", Undefined},
              showInstallBanner : BOOLEAN ] ]

Options ==
    { [hasIndentSize |-> FALSE, indentSize |-> 0] }
      \cup [ hasIndentSize : {TRUE}, indentSize : 0..MaxIndent ]

TablesInit ==
    /\ AppIconDefs \in Tables(AppIconPool, MaxDefs)
    /\ SplashscreenDefs \in Tables(SplashscreenPool, MaxDefs)

HIdle ==
    /\ hpc = "start"
    /\ opts = [hasIndentSize |-> FALSE, indentSize |-> 0]
    /\ pwa = Undefined
    /\ result = ""
    /\ houtcome = "pending"

\* make( opts, source ) is called: runs up to the await of loadManifest
HMake ==
    /\ hpc = "start"
    /\ opts' \in Options
    /\ hpc' = "loadManifest"
    /\ UNCHANGED <<AppIconDefs, SplashscreenDefs, pwa, result, houtcome, avars>>

\* loadManifest resolved: print everything and return print.result()
HManifestLoaded ==
    /\ hpc = "loadManifest"
    /\ \E m \in Manifests :
          /\ pwa' = m
          /\ result' = PrintAll("", opts, PrintCalls(m, IOSAppIconDefs, IOSSplashscreenDefs))
    /\ hpc' = "done"
    /\ houtcome' = "resolved"
    /\ UNCHANGED <<AppIconDefs, SplashscreenDefs, opts, avars>>

\* loadManifest rejected: the await throws and make rejects
HManifestFailed ==
    /\ hpc = "loadManifest"
    /\ hpc' = "done"
    /\ houtcome' = "rejected"
    /\ UNCHANGED <<AppIconDefs, SplashscreenDefs, opts, pwa, result, avars>>

HNext == HMake \/ HManifestLoaded \/ HManifestFailed

(***************************************************************************)
(* The image generator (src/unnamed/part_000).                             *)
(***************************************************************************)
SourceImagePath == "_pwa"
TargetImagePath == "pwa"
BaseAppIconName == "appicon"
\* Path.join( Path.dirname( __dirname ), 'assets/appicon.png' )
DefaultBaseAppIconPath == "/tools/assets/appicon.png"
BaseStdSplashscreenName == "splashscreen"
BaseIOSSplashscreenName == "ios/splashscreen"

\* the arguments make( opts, source, target ) is called with
Source == "site"
Target == "build"

\* Path.join of two relative, normalised paths
PathJoin(a, b) == a \o "/" \o b

\* Path.dirname
RECURSIVE Dirname(_)
Dirname(path) ==
    IF Len(path) = 0 THEN "."
    ELSE IF SubSeq(path, Len(path), Len(path)) = "/" THEN SubSeq(path, 1, Len(path) - 1)
    ELSE Dirname(SubSeq(path, 1, Len(path) - 1))

sourcePath == PathJoin(Source, SourceImagePath)
targetPath == PathJoin(Target, TargetImagePath)

\* whether path lies in the tree rooted at dir
IsUnder(path, dir) == StartsWith(path, dir \o "/") \/ path = dir

\* JavaScript truthiness of a path value
Truthy(v) == v \notin {Undefined, Null, ""}

NoError == [kind |-> "none", op |-> "", args |-> <<>>]
Rejection(op, args) == [kind |-> "rejected", op |-> op, args |-> args]
ReferenceError(name) == [kind |-> "ReferenceError", op |-> name, args |-> <<>>]

NoFfm == [path |-> "", exts |-> <<>>, defaultPath |-> Undefined, k |-> 0,
          caller |-> "", running |-> FALSE, ret |-> Undefined]
NoBi == [baseImagePath |-> Undefined, imageDefs |-> <<>>, exts |-> <<>>, i |-> 0]

\* the machine state as one record, and its write-back
Cur ==
    [ pc |-> pc, stage |-> stage, ffm |-> ffm, bi |-> bi,
      background_color |-> background_color,
      baseAppIconPath |-> baseAppIconPath,
      baseStdSplashscreenPath |-> baseStdSplashscreenPath,
      baseIosSplashscreenPath |-> baseIosSplashscreenPath,
      inflight |-> inflight, log |-> log, outcome |-> outcome, error |-> error,
      tgtFiles |-> tgtFiles, tgtDirs |-> tgtDirs ]

Becomes(s) ==
    /\ pc' = s.pc
    /\ stage' = s.stage
    /\ ffm' = s.ffm
    /\ bi' = s.bi
    /\ background_color' = s.background_color
    /\ baseAppIconPath' = s.baseAppIconPath
    /\ baseStdSplashscreenPath' = s.baseStdSplashscreenPath
    /\ baseIosSplashscreenPath' = s.baseIosSplashscreenPath
    /\ inflight' = s.inflight
    /\ log' = s.log
    /\ outcome' = s.outcome
    /\ error' = s.error
    /\ tgtFiles' = s.tgtFiles
    /\ tgtDirs' = s.tgtDirs
    /\ UNCHANGED <<files, AppIconDefs, SplashscreenDefs, hvars>>

Event(ev, op, args, s) ==
    [ev |-> ev, op |-> op, args |-> args, stage |-> s.stage, idx |-> s.bi.i]

\* a collaborator is called and awaited: make suspends on it
Issue(s, op, args) ==
    [s EXCEPT !.pc = op,
              !.inflight = @ \cup {[op |-> op, args |-> args]},
              !.log = Append(@, Event("issue", op, args, s))]

\* the awaited operation settles
Settle(s, ev) ==
    LET o == CHOOSE x \in s.inflight : x.op = s.pc
    IN [s EXCEPT !.inflight = @ \ {o},
                 !.log = Append(@, Event(ev, o.op, o.args, s))]

\* an exception leaves make: nothing catches it
Throw(s, err) == [s EXCEPT !.pc = "done", !.outcome = "rejected", !.error = err]

\* mutant of OnRejected: the failed operation is issued again
OnRejectedRetry(s, o) == Issue(s, o.op, o.args)

\* an awaited operation rejected: the await throws
OnRejected(s, o) == Throw(s, Rejection(o.op, o.args))

\* scaleImage( source, target, width, height, bgColor = 'black' )
ScaleArgs(source, target, width, height, bgColor) ==
    << source,
       "-resize", Dim(width, height) \o "^",
       "-background", IF bgColor = Undefined THEN "black" ELSE bgColor,
       "-compose", "Copy",
       "-gravity", "center",
       "-extent", Dim(width, height),
       target >>

\* scaleImage builds the arguments and calls exec, which the file never
\* declares or imports: the call throws a ReferenceError
scaleImage(s, source, target, width, height, bgColor) ==
    Throw([s EXCEPT !.log = Append(@, Event("call", "scaleImage",
                                   ScaleArgs(source, target, width, height, bgColor), s))],
          ReferenceError("exec"))

\* let filePath = `${path}.${ext}`
FfmCandidateReversed(f, k) == f.path \o "." \o f.exts[Len(f.exts) + 1 - k]

FfmCandidate(f, k) == f.path \o "." \o f.exts[k]

\* findFileMatch( basePath, path, exts, defaultPath ) up to its first await
findFileMatch(s, basePath, path, exts, defaultPath, caller) ==
    LET f == [path |-> path, exts |-> exts, defaultPath |-> defaultPath, k |-> 1,
              caller |-> caller, running |-> TRUE, ret |-> Undefined]
    IN Issue([s EXCEPT !.ffm = f], "exists", <<FfmCandidate(f, 1)>>)

\* the rest of make after buildImages of the current stage returned
AfterBuildImages(s) ==
    CASE s.stage = "appicon" ->
            \* DefaultStdSplashscreenPath is declared nowhere: evaluating the
            \* arguments of the call throws
            Throw(s, ReferenceError("DefaultStdSplashscreenPath"))
      [] s.stage = "std" ->
            findFileMatch([s EXCEPT !.stage = "ios", !.bi = NoBi], sourcePath,
                          BaseIOSSplashscreenName, <<"png">>,
                          s.baseStdSplashscreenPath, "make")
      [] OTHER ->
            [s EXCEPT !.pc = "done", !.outcome = "resolved"]

imagePathOf(d) == d.target \o "/" \o Dim(d.w, d.h)
targetImagePathOf(d) == PathJoin(targetPath, imagePathOf(d))

\* the head of the for loop of buildImages, at definition s.bi.i
BuildImagesLoop(s) ==
    IF s.bi.i > Len(s.bi.imageDefs)
    THEN AfterBuildImages(s)
    ELSE Issue(s, "ensureDir", <<Dirname(targetImagePathOf(s.bi.imageDefs[s.bi.i]))>>)

\* buildImages( sourcePath, baseImagePath, imageDefs, exts, targetPath, bgColor )
buildImages(s, baseImagePath, imageDefs, exts) ==
    BuildImagesLoop([s EXCEPT !.bi = [baseImagePath |-> baseImagePath,
                                      imageDefs |-> imageDefs, exts |-> exts, i |-> 1]])

\* mutant of CopyImage: cp is not awaited and the loop goes on
CopyImageNotAwaited(s, existingImagePath, targetImagePath) ==
    LET t == Issue(s, "cp", <<existingImagePath, targetImagePath>>)
    IN BuildImagesLoop([t EXCEPT !.bi.i = @ + 1])

\* await cp( existingImagePath, targetImagePath )
CopyImage(s, existingImagePath, targetImagePath) ==
    Issue(s, "cp", <<existingImagePath, targetImagePath>>)

\* findFileMatch returns r to its caller, which runs on to its next await
FfmReturn(s0, r) ==
    LET s == [s0 EXCEPT !.ffm.running = FALSE, !.ffm.ret = r]
    IN IF s.ffm.caller = "buildImages"
       THEN LET d == s.bi.imageDefs[s.bi.i]
            IN IF Truthy(r)
               THEN CopyImage(s, r, targetImagePathOf(d))
               ELSE scaleImage(s, s.bi.baseImagePath, targetImagePathOf(d),
                               d.w, d.h, s.background_color)
       ELSE CASE s.stage = "appicon" ->
                    buildImages([s EXCEPT !.baseAppIconPath = r], r,
                                AppIconDefs, <<"png", "svg">>)
              [] s.stage = "std" ->
                    buildImages([s EXCEPT !.baseStdSplashscreenPath = r], r,
                                FilterTarget(SplashscreenDefs, "std"), <<"png", "svg">>)
              [] OTHER ->
                    buildImages([s EXCEPT !.baseIosSplashscreenPath = r], r,
                                FilterTarget(SplashscreenDefs, "ios"), <<"png">>)

\* findFileMatch resumes with the answer of exists
AfterExists(s, found) ==
    LET f == s.ffm
    IN IF f.k <= Len(f.exts)
       THEN IF found THEN FfmReturn(s, FfmCandidate(f, f.k))
            ELSE IF f.k < Len(f.exts)
                 THEN Issue([s EXCEPT !.ffm.k = f.k + 1], "exists",
                            <<FfmCandidate(f, f.k + 1)>>)
            ELSE IF Truthy(f.defaultPath)
                 THEN Issue([s EXCEPT !.ffm.k = f.k + 1], "exists", <<f.defaultPath>>)
            ELSE FfmReturn(s, Null)
       ELSE IF found THEN FfmReturn(s, f.defaultPath) ELSE FfmReturn(s, Null)

\* mutant of MakeEntry: the target is removed before the manifest is loaded
MakeEntryRemovesFirst(s) == Issue(s, "rmrf", <<targetPath>>)

\* make( opts, source, target ) up to its first await
MakeEntry(s) == Issue(s, "loadManifest", <<Source>>)

(***************************************************************************)
(* The file system and the target tree before make runs.                   *)
(***************************************************************************)
PrescaledNames ==
    { imagePathOf(d) \o ".png" : d \in AppIconPool }
      \cup { "ios/" \o Dim(120, 120) \o ".svg" }

FileUniverse ==
    {"appicon.png", "appicon.svg", DefaultBaseAppIconPath}
      \cup PrescaledNames
      \cup { PathJoin(sourcePath, "appicon.png"),
             PathJoin(sourcePath, "ios/" \o Dim(120, 120) \o ".png") }

InitialTarget ==
    { [path |-> PathJoin(targetPath, "stale.png"), from |-> "an earlier build"],
      [path |-> PathJoin(Target, "index.html"), from |-> "an earlier build"] }

AIdle ==
    /\ pc = "start"
    /\ stage = "appicon"
    /\ ffm = NoFfm
    /\ bi = NoBi
    /\ background_color = Undefined
    /\ baseAppIconPath = Undefined
    /\ baseStdSplashscreenPath = Undefined
    /\ baseIosSplashscreenPath = Undefined
    /\ inflight = {}
    /\ log = <<>>
    /\ outcome = "pending"
    /\ error = NoError
    /\ tgtFiles = InitialTarget
    /\ tgtDirs = {}

Init ==
    /\ TablesInit
    /\ HIdle
    /\ files \in { F \in SUBSET FileUniverse : Cardinality(F) <= MaxFiles }
    /\ AIdle

(***************************************************************************)
(* Actions: make is called, and then each awaited operation settles.       *)
(***************************************************************************)
Awaited == CHOOSE o \in inflight : o.op = pc

Make ==
    /\ pc = "start"
    /\ Becomes(MakeEntry(Cur))

ManifestLoaded ==
    /\ pc = "loadManifest"
    /\ \E color \in {"#fff", Undefined} :
          Becomes(Issue([Settle(Cur, "ok") EXCEPT !.background_color = color],
                        "rmrf", <<targetPath>>))

RmrfDone ==
    /\ pc = "rmrf"
    /\ Becomes(findFileMatch(
          [Settle(Cur, "ok") EXCEPT
              !.tgtFiles = { t \in @ : ~IsUnder(t.path, Awaited.args[1]) },
              !.tgtDirs = { t \in @ : ~IsUnder(t, Awaited.args[1]) }],
          sourcePath, BaseAppIconName, <<"png", "svg">>, DefaultBaseAppIconPath, "make"))

ExistsDone ==
    /\ pc = "exists"
    /\ Becomes(AfterExists(Settle(Cur, "ok"), Awaited.args[1] \in files))

EnsureDirDone ==
    /\ pc = "ensureDir"
    /\ Becomes(findFileMatch(
          [Settle(Cur, "ok") EXCEPT !.tgtDirs = @ \cup {Awaited.args[1]}],
          sourcePath, imagePathOf(bi.imageDefs[bi.i]), bi.exts, Undefined, "buildImages"))

CpDone ==
    /\ pc = "cp"
    /\ Becomes(BuildImagesLoop(
          [Settle(Cur, "ok") EXCEPT
              !.tgtFiles = { t \in @ : t.path # Awaited.args[2] }
                             \cup {[path |-> Awaited.args[2], from |-> Awaited.args[1]]},
              !.bi.i = @ + 1]))

\* any awaited collaborator operation may reject
OperationFailed ==
    /\ pc \in {"loadManifest", "rmrf", "exists", "ensureDir", "cp"}
    /\ Becomes(OnRejected(Settle(Cur, "fail"), Awaited))

Next ==
    \/ Make
    \/ ManifestLoaded
    \/ RmrfDone
    \/ ExistsDone
    \/ EnsureDirDone
    \/ CpDone
    \/ OperationFailed

vars == <<AppIconDefs, SplashscreenDefs, hvars, avars>>

Spec == Init /\ [][Next]_vars

HInit ==
    /\ TablesInit
    /\ HIdle
    /\ files = {}
    /\ AIdle

HeaderSpec == HInit /\ [][HNext]_vars


(***************************************************************************)
(* Reading the generated head fragment back.                               *)
(***************************************************************************)
\* the pieces of s[a..b] between line breaks (at least one piece), found by
\* halving the range
RECURSIVE Pieces(_, _, _)
Pieces(s, a, b) ==
    IF a > b THEN <<"">>
    ELSE IF a = b THEN (IF SubSeq(s, a, a) = "\n" THEN <<"", "">> ELSE <<SubSeq(s, a, a)>>)
    ELSE LET m == (a + b) \div 2
             L == Pieces(s, a, m)
             R == Pieces(s, m + 1, b)
         IN SubSeq(L, 1, Len(L) - 1) \o <<L[Len(L)] \o R[1]>> \o Tail(R)

\* the lines of a string, as separated by "\n"
Lines(s) == Pieces(s, 1, Len(s))

RECURSIVE LeadingSpaces(_)
LeadingSpaces(s) ==
    IF Len(s) > 0 /\ SubSeq(s, 1, 1) = " "
    THEN 1 + LeadingSpaces(SubSeq(s, 2, Len(s)))
    ELSE 0

RECURSIVE HasLineBreak(_)
HasLineBreak(s) ==
    /\ Len(s) > 0
    /\ (SubSeq(s, 1, 1) = "\n" \/ HasLineBreak(SubSeq(s, 2, Len(s))))

NonBlankLines(s) ==
    LET ls == Lines(s) IN { l \in { ls[i] : i \in 1..Len(ls) } : l # "" }

StatusBarPrefix == "<meta name=\"apple-mobile-web-app-status-bar-style\" content=\""
TagSuffix == "\" />"

\* the content values of the status-bar-style meta tags found in the output
StatusBarValues(s) ==
    LET tags == { t \in { TrimStart(l) : l \in NonBlankLines(s) } :
                    StartsWith(t, StatusBarPrefix) /\ EndsWith(t, TagSuffix) }
    IN { SubSeq(t, Len(StatusBarPrefix) + 1, Len(t) - Len(TagSuffix)) : t \in tags }

HeaderDone == hpc = "done" /\ houtcome = "resolved"

\* C6: the emitted apple-mobile-web-app-status-bar-style value is
\* ios.statusBarStyle verbatim when that is default, black or
\* black-translucent; for any other value, a missing one included, it is
\* black-translucent when display is fullscreen and default otherwise.
C6_StatusBarStyle ==
    HeaderDone =>
        LET sbs == pwa.ios.statusBarStyle
            expected ==
                CASE sbs = "default" -> "default"
                  [] sbs = "black" -> "black"
                  [] sbs = "black-translucent" -> "black-translucent"
                  [] OTHER -> IF pwa.display = "fullscreen"
                              THEN "black-translucent"
                              ELSE "default"
        IN StatusBarValues(result) = {expected}

\* a header was generated for a manifest without statusBarStyle, in fullscreen
C6_Witness ==
    /\ HeaderDone
    /\ pwa.ios.statusBarStyle = Undefined
    /\ pwa.display = "fullscreen"
    /\ StatusBarValues(result) = {"black-translucent"}

IndentTwo == opts.hasIndentSize /\ opts.indentSize = 2

\* C7 as stated: with indentSize = 2 every non-blank line of the output has
\* two leading spaces and a third character that is not a space, whatever the
\* manifest values.
C7_ExactlyTwoSpaces ==
    (HeaderDone /\ IndentTwo) =>
        \A l \in NonBlankLines(result) : LeadingSpaces(l) = 2 /\ Len(l) > 2

\* the href= and media= continuation lines of an apple-touch-startup-image link
IsContinuationLine(l) ==
    StartsWith(TrimStart(l), "href=") \/ StartsWith(TrimStart(l), "media=")

\* no string of the manifest that make prints holds a line break
NoLineBreaks(p) ==
    /\ ~HasLineBreak(p.name)
    /\ ~HasLineBreak(p.short_name)
    /\ ~HasLineBreak(p.background_color)

\* C7 amended: with indentSize = 2 and a manifest whose strings hold no line
\* break, every non-blank line starts with the two-space indent; what follows
\* is the printed line, which starts with a non-space character except for the
\* href= and media= lines of a startup-image link, which carry four more
\* spaces of their own (six in all).
C7_IndentThenLine ==
    (HeaderDone /\ IndentTwo /\ NoLineBreaks(pwa)) =>
        \A l \in NonBlankLines(result) :
            /\ Len(l) > LeadingSpaces(l)
            /\ LeadingSpaces(l) = IF IsContinuationLine(l) THEN 6 ELSE 2

\* a header with indentSize = 2 that holds a startup-image link was generated
C7_Witness ==
    /\ HeaderDone
    /\ IndentTwo
    /\ NoLineBreaks(pwa)
    /\ IOSSplashscreenDefs # <<>>
    /\ \E l \in NonBlankLines(result) : IsContinuationLine(l)


(***************************************************************************)
(* Properties of the image generator.                                      *)
(***************************************************************************)
\* the definitions the batch of a stage iterates over
StageDefs(st) ==
    CASE st = "appicon" -> AppIconDefs
      [] st = "std" -> FilterTarget(SplashscreenDefs, "std")
      [] OTHER -> FilterTarget(SplashscreenDefs, "ios")

Last(seq) == seq[Len(seq)]

\* positions of the log holding an event of the given kind and operation
At(ev, op) == { n \in DOMAIN log : log[n].ev = ev /\ log[n].op = op }

\* positions at which an image is produced: a finished copy, or a scaling call
Generated == At("ok", "cp") \cup At("call", "scaleImage")

\* the first existing path of a list of candidates, Null when there is none
FirstExisting(candidates) ==
    LET hits == { k \in DOMAIN candidates : candidates[k] \in files }
    IN IF hits = {} THEN Null
       ELSE candidates[CHOOSE k \in hits : \A j \in hits : k <= j]

\* the layout the generated files are documented to have, below the target root
LayoutPath(st, d) ==
    IF st = "appicon"
    THEN "pwa/appicon/" \o Dim(d.w, d.h) \o ".png"
    ELSE "pwa/splashscreen/" \o d.target \o "/" \o Dim(d.w, d.h) \o ".png"

\* C1: every image the generator copies or scales goes to pwa/appicon/{w}x{h}.png
\* (app icons) or pwa/splashscreen/{target}/{w}x{h}.png (splashscreens) below
\* the target root, so every apple-touch-icon href of the header names a path
\* the generator writes for the same definition.
C1_GeneratedLayout ==
    \A n \in Generated :
        LET d == StageDefs(log[n].stage)[log[n].idx]
            written == Last(log[n].args)
        IN /\ written = PathJoin(Target, LayoutPath(log[n].stage, d))
           /\ (log[n].stage = "appicon" /\ d.target = "ios")
                 => written = PathJoin(Target, IconHref(d))

\* the three paths the base app icon is documented to be looked up at
BaseAppIconCandidates ==
    << PathJoin(sourcePath, BaseAppIconName \o ".png"),
       PathJoin(sourcePath, BaseAppIconName \o ".svg"),
       DefaultBaseAppIconPath >>

\* the paths exists was asked about, in order, by the calls of one stage made
\* for definition idx (0: by make itself)
RECURSIVE ProbesOf(_, _, _)
ProbesOf(l, st, idx) ==
    IF l = <<>> THEN <<>>
    ELSE IF Head(l).ev = "issue" /\ Head(l).op = "exists"
              /\ Head(l).stage = st /\ Head(l).idx = idx
         THEN <<Head(l).args[1]>> \o ProbesOf(Tail(l), st, idx)
         ELSE ProbesOf(Tail(l), st, idx)

IsPrefix(a, b) == Len(a) <= Len(b) /\ a = SubSeq(b, 1, Len(a))

\* C2: the base app icon is found by probing {source}/_pwa/appicon.png, then
\* {source}/_pwa/appicon.svg, then the bundled default, and is the first of
\* these that exists.
C2_BaseAppIconProbes ==
    /\ IsPrefix(ProbesOf(log, "appicon", 0), BaseAppIconCandidates)
    /\ baseAppIconPath # Undefined
          => baseAppIconPath = FirstExisting(BaseAppIconCandidates)

\* the pre-made replacement of a definition in the source tree, Null if none
PremadeInSource(d, exts) ==
    FirstExisting([k \in DOMAIN exts |->
                      PathJoin(sourcePath, imagePathOf(d) \o "." \o exts[k])])

StageExts(st) == IF st = "ios" THEN <<"png">> ELSE <<"png", "svg">>

StageBase(st) ==
    CASE st = "appicon" -> baseAppIconPath
      [] st = "std" -> baseStdSplashscreenPath
      [] OTHER -> baseIosSplashscreenPath

\* C3: for every definition exactly one of copy and scale is invoked: copy,
\* from the pre-made file, iff the source tree holds a file at
\* {target}/{w}x{h} with a supported extension; otherwise scale, against the
\* resolved base image with the definition's w and h and the manifest's
\* background colour.
C3_CopyIffPremade ==
    \A n \in At("issue", "cp") \cup At("call", "scaleImage") :
        LET d == StageDefs(log[n].stage)[log[n].idx]
            premade == PremadeInSource(d, StageExts(log[n].stage))
        IN /\ \A m \in At("issue", "cp") \cup At("call", "scaleImage") :
                 (log[m].stage = log[n].stage /\ log[m].idx = log[n].idx) => m = n
           /\ (log[n].op = "cp") <=> (premade # Null)
           /\ (log[n].op = "cp") => log[n].args[1] = premade
           /\ (log[n].op = "scaleImage") =>
                 log[n].args = ScaleArgs(StageBase(log[n].stage), Last(log[n].args),
                                         d.w, d.h, background_color)

\* the definitions of the three batches, in the order make runs them
AllBatches ==
    [i \in 1..Len(AppIconDefs) |-> [stage |-> "appicon", idx |-> i]]
      \o [i \in 1..Len(StageDefs("std")) |-> [stage |-> "std", idx |-> i]]
      \o [i \in 1..Len(StageDefs("ios")) |-> [stage |-> "ios", idx |-> i]]

RECURSIVE GeneratedOrder(_)
GeneratedOrder(l) ==
    IF l = <<>> THEN <<>>
    ELSE IF (Head(l).ev = "ok" /\ Head(l).op = "cp")
              \/ (Head(l).ev = "call" /\ Head(l).op = "scaleImage")
         THEN <<[stage |-> Head(l).stage, idx |-> Head(l).idx]>> \o GeneratedOrder(Tail(l))
         ELSE GeneratedOrder(Tail(l))

NoCollaboratorFailed == \A n \in DOMAIN log : log[n].ev # "fail"

\* C4: a run in which every collaborator succeeds ends resolved, having
\* generated an image for every app icon, then every std splashscreen, then
\* every ios splashscreen.
C4_ResolvesAfterAllBatches ==
    (pc = "done" /\ NoCollaboratorFailed) =>
        /\ outcome = "resolved"
        /\ GeneratedOrder(log) = AllBatches

C8_OneAtATime ==
    /\ Cardinality(inflight) <= 1
    /\ \A n \in DOMAIN log :
          (log[n].ev = "issue" /\ log[n].idx > 1) =>
              \E m \in 1..(n - 1) :
                  \* a scaling call never returns (see scaleImage), so the
                  \* previous definition was finished by a copy
                  /\ log[m].ev = "ok" /\ log[m].op = "cp"
                  /\ log[m].stage = log[n].stage
                  /\ log[m].idx = log[n].idx - 1

\* the second definition of a batch is being worked on
C8_Witness ==
    \E n \in At("issue", "ensureDir") : log[n].idx = 2 /\ inflight # {}

Failures == { n \in DOMAIN log : log[n].ev = "fail" }

\* C9: when a probe, ensureDir, cp or the scaling invocation fails, make
\* rejects with that failure, the operation is not issued again, nothing is
\* issued after it, and what was already copied stays in the target.
C9_FailureIsFinal ==
    /\ \A n \in Failures :
          /\ n = Len(log)
          /\ outcome = "rejected"
          /\ error = Rejection(log[n].op, log[n].args)
          /\ Cardinality({ m \in At("issue", log[n].op) :
                             /\ log[m].args = log[n].args
                             /\ log[m].stage = log[n].stage
                             /\ log[m].idx = log[n].idx }) = 1
          /\ inflight = {}
          /\ \A m \in At("ok", "cp") :
                [path |-> log[m].args[2], from |-> log[m].args[1]] \in tgtFiles
    /\ \A n \in At("call", "scaleImage") :
          /\ n = Len(log)
          /\ outcome = "rejected"
          /\ error.kind # "none"
          /\ \A m \in At("ok", "cp") :
                [path |-> log[m].args[2], from |-> log[m].args[1]] \in tgtFiles

\* a copy was made and then a later operation failed
C9_Witness ==
    /\ Failures # {}
    /\ At("ok", "cp") # {}
    /\ log[Len(log)].op \in {"exists", "ensureDir", "cp"}

FileOps == {"exists", "ensureDir", "cp", "scaleImage"}

\* C10: the target directory is removed at most once per run, only after
\* loadManifest succeeded and before any probe, ensureDir, cp or scale; if
\* loadManifest fails the target is untouched and nothing else is issued.
C10_RemoveOnceAfterManifest ==
    /\ Cardinality(At("issue", "rmrf")) <= 1
    /\ \A n \in At("issue", "rmrf") : \E m \in At("ok", "loadManifest") : m < n
    /\ \A k \in DOMAIN log :
          log[k].op \in FileOps => \E n \in At("issue", "rmrf") : n < k
    /\ At("fail", "loadManifest") # {} =>
          /\ tgtFiles = InitialTarget
          /\ tgtDirs = {}
          /\ \A k \in DOMAIN log : log[k].op = "loadManifest"

\* the target was removed and files were then probed and copied into it
C10_Witness ==
    /\ At("ok", "rmrf") # {}
    /\ At("ok", "cp") # {}
    /\ \A t \in tgtFiles : IsUnder(t.path, targetPath) => t \notin InitialTarget

=============================================================================
